---- MODULE Spec2Model ----
(***************************************************************************)
(* Model of the image-processing route of psylsph/image-processor:         *)
(* src/src/app/api/process-image/route.ts.  The file holds two versions of *)
(* the POST handler: the remove.bg pipeline (lines 8-224, specification    *)
(* Spec) and the locally synthesized mask variant (lines 230-302,          *)
(* specification SpecLocal).                                               *)
(*                                                                         *)
(* One action stands for one continuation of the async handler: the code   *)
(* that runs between two awaits.  Image buffers are modelled by their      *)
(* pixel dimensions.  The image library (sharp) and the matte service      *)
(* (remove.bg) are the environment: their outcomes are drawn with \E.      *)
(*                                                                         *)
(* The client components are modelled beside the route, each under its own *)
(* specification: the ImageUploader variants with a HEIC conversion        *)
(* (SpecUpload), the blur slider and the Process button of part_004        *)
(* (SpecSlider, SpecButton) and Home (SpecHome).                           *)
(***************************************************************************)
EXTENDS Integers, Sequences, FiniteSets, TLC

VARIABLES
    apiKey,            \* REMOVE_BG_API_KEY is configured (route.ts:6)
    pc,                \* position of the handler
    bodyRead,          \* request.formData() has been awaited
    file,              \* formData.get('image')
    blurAmount,        \* route.ts:21
    metadata,          \* baseImage.metadata()
    resizeDimensions,  \* route.ts:91
    resizedImage,      \* route.ts:100, by its dimensions
    attempt,           \* route.ts:112
    success,           \* route.ts:113
    result,            \* route.ts:110
    noBackgroundBuffer,\* route.ts:150
    blurredBuffer,     \* route.ts:159
    combined,          \* route.ts:169
    whiteBackground,   \* route.ts:261 (local mask variant)
    response,          \* the NextResponse returned, NoResponse before
    calls,             \* history: calls of removeBackgroundFromImageBase64
    delays,            \* history: the setTimeout delays started, in ms
    outcomes,          \* history: what each service call produced
    stages,            \* history: the stages entered, in order
    planner,           \* one application of calculateResizeDimensions
    variant,           \* which ImageUploader component is mounted
    upc,               \* position of the uploader's onDrop
    isProcessing,      \* ImageUploader state
    error,             \* ImageUploader state, "" for null
    upload,            \* the file onDrop works on
    conversions,       \* history: HEIC conversions started for this drop
    requests,          \* history: requests sent to /api/process-image for this drop
    conversionFailed,  \* history: the conversion of this drop threw
    processed,         \* history: calls of onImageProcessed
    drops,             \* history: files dropped so far
    slider,            \* part_004: one pass of a slider value to the server's radius
    selectedImage,     \* Home state (page.tsx:8)
    processedImages,   \* Home state (page.tsx:9)
    loading,           \* Home state (page.tsx:10)
    selectedFile,      \* part_004 ImageUploader state (line 13)
    job,               \* the processImage call under way: its file and position
    cleared            \* history: the drop whose success cleared selectedFile

vars == <<apiKey, pc, bodyRead, file, blurAmount, metadata, resizeDimensions,
          resizedImage, attempt, success, result, noBackgroundBuffer,
          blurredBuffer, combined, whiteBackground, response, calls, delays,
          outcomes, stages, planner, variant, upc, isProcessing, error, upload,
          conversions, requests, conversionFailed, processed, drops, slider,
          selectedImage, processedImages, loading, selectedFile, job, cleared>>

\* What the POST handler never touches.
aside ==
    <<planner, variant, upc, isProcessing, error, upload, conversions, requests,
      conversionFailed, processed, drops, slider, selectedImage, processedImages,
      loading, selectedFile, job, cleared>>

(***************************************************************************)
(* Inputs.                                                                 *)
(***************************************************************************)

\* Source widths and heights tried.  maxDimension is the program's 800, so
\* the samples sit on both sides of it and include the extreme aspect
\* ratios (1, 3) and values whose scaled short side does not divide evenly.
SrcDims == {1, 3, 403, 600, 800, 1000, 1200, 1600, 2000}

MaxFileSize == 10 * 1024 * 1024

FileSizes == {0, 1, MaxFileSize, MaxFileSize + 1}

FileTypes == {"image/jpeg", "image/png", "application/pdf", ""}

\* The raw form field 'blurAmount': absent, not numeric, or a number.
BlurFields == {"absent", "abc", "0", "-5", "20", "1001"}

\* The encodings an uploaded image can have.
ImageFormats == {"jpeg", "png"}

\* A width and a height not computed yet.
NoDimensions == [width |-> 0, height |-> 0]

\* A buffer is modelled by its pixel size and the format its bytes are
\* encoded in; NoBuffer is "not produced yet".
NoBuffer == [width |-> 0, height |-> 0, format |-> ""]

\* toBuffer() of a sharp pipeline with no output format set: the bytes keep
\* the format of the pipeline's input.
Buffer(dims, format) ==
    [width |-> dims.width, height |-> dims.height, format |-> format]

NoFile == [present |-> FALSE, size |-> 0, type |-> ""]

NoMetadata == [width |-> 0, height |-> 0, format |-> ""]

\* result as declared and not yet assigned (let result: RemoveBgResult).
NoResult == [defined |-> FALSE, base64img |-> ""]

\* What the service can answer with: an undefined result, a result whose
\* payload is empty, a decodable payload, a payload that is no image.
ServiceResults ==
    { NoResult,
      [defined |-> TRUE, base64img |-> ""],
      [defined |-> TRUE, base64img |-> "img"],
      [defined |-> TRUE, base64img |-> "junk"] }

\* What the service call can throw.  status = 0 stands for an error with no
\* response (error.response undefined); "" stands for a missing string.
RateLimitError ==
    [status |-> 429, title |-> "Rate limit exceeded", dataMessage |-> "",
     message |-> "Request failed with status code 429"]

AuthError ==
    [status |-> 403, title |-> "", dataMessage |-> "Invalid API key",
     message |-> "Request failed with status code 403"]

NetworkError ==
    [status |-> 0, title |-> "", dataMessage |-> "", message |-> "socket hang up"]

BareError ==
    [status |-> 0, title |-> "", dataMessage |-> "", message |-> ""]

NoError == [status |-> 0, title |-> "", dataMessage |-> "", message |-> "none"]

ServiceErrors == {RateLimitError, AuthError, NetworkError, BareError}

\* One service call: it resolves with a result or rejects with an error.
ServiceOutcomes ==
    { [ok |-> TRUE, result |-> r, error |-> NoError] : r \in ServiceResults }
    \cup
    { [ok |-> FALSE, result |-> NoResult, error |-> e] : e \in ServiceErrors }

(***************************************************************************)
(* Pure functions of the route.                                            *)
(***************************************************************************)

\* Math.floor in the place of Math.round.
RoundDown(a, b) == a \div b

\* Math.round(a / b) for a >= 0, b > 0: halves round up.
Round(a, b) == (2 * a + b) \div (2 * b)

maxDimension == 800

\* The axes are compared the wrong way round.
calculateResizeDimensionsWrongAxis(width, height, maxDim) ==
    IF width <= maxDim /\ height <= maxDim
    THEN [width |-> width, height |-> height]
    ELSE IF width < height
         THEN [width |-> maxDim, height |-> Round(height * maxDim, width)]
         ELSE [width |-> Round(width * maxDim, height), height |-> maxDim]

\* The early return for an image within the bound is missing.
calculateResizeDimensionsAlwaysScale(width, height, maxDim) ==
    IF width > height
    THEN [width |-> maxDim, height |-> Round(height * maxDim, width)]
    ELSE [width |-> Round(width * maxDim, height), height |-> maxDim]

\* The short side of a wide image is scaled by the inverse ratio.
calculateResizeDimensionsInvertedRatio(width, height, maxDim) ==
    IF width <= maxDim /\ height <= maxDim
    THEN [width |-> width, height |-> height]
    ELSE IF width > height
         THEN [width |-> maxDim, height |-> Round(width * maxDim, height)]
         ELSE [width |-> Round(width * maxDim, height), height |-> maxDim]

calculateResizeDimensions(width, height, maxDim) ==
    IF width <= maxDim /\ height <= maxDim
    THEN [width |-> width, height |-> height]
    ELSE IF width > height
         THEN [width |-> maxDim, height |-> Round(height * maxDim, width)]
         ELSE [width |-> Round(width * maxDim, height), height |-> maxDim]

Max(a, b) == IF a >= b THEN a ELSE b

\* sharp's resize(w, h, {fit: 'inside', withoutEnlargement: true}): one
\* shrink factor for both axes, the larger of srcW/w and srcH/h and never
\* below 1; each axis is rounded on its own and never reaches 0.
InsideFit(srcW, srcH, w, h) ==
    LET byWidth == srcW * h > srcH * w
        num == IF byWidth THEN srcW ELSE srcH
        den == IF byWidth THEN w ELSE h
    IN  IF num <= den
        THEN [width |-> srcW, height |-> srcH]
        ELSE [width  |-> Max(1, Round(srcW * den, num)),
              height |-> Max(1, Round(srcH * den, num))]

\* sharp's resize(w, h, {fit: 'contain'}): exactly the box, padded.
ContainFit(w, h) == [width |-> w, height |-> h]

\* sharp rejects a resize whose width or height is not a positive integer.
ResizeArgsValid(dims) == dims.width > 0 /\ dims.height > 0

\* Number(formData.get('blurAmount')): Number(null) is 0, Number of a text
\* that is no number is NaN.
NumberOf(field) ==
    CASE field = "absent" -> [nan |-> FALSE, val |-> 0]
      [] field = "abc"    -> [nan |-> TRUE,  val |-> 0]
      [] field = "0"      -> [nan |-> FALSE, val |-> 0]
      [] field = "-5"     -> [nan |-> FALSE, val |-> -5]
      [] field = "20"     -> [nan |-> FALSE, val |-> 20]
      [] field = "1001"   -> [nan |-> FALSE, val |-> 1001]

\* Number(...) || 20: NaN and 0 are falsy.
BlurAmountOf(field) ==
    LET n == NumberOf(field)
    IN  IF n.nan \/ n.val = 0 THEN 20 ELSE n.val

\* sharp's blur(sigma) throws unless 0.3 <= sigma <= 1000.
BlurArgValid(sigma) == sigma >= 1 /\ sigma <= 1000

\* The type is not looked at.
StartsWithAnything(type) == TRUE

\* file.type.startsWith('image/')
StartsWithImage(type) == type \in {"image/jpeg", "image/png"}

\* The limit itself is rejected too.
FileTooLargeInclusive(size) == size >= 10 * 1024 * 1024

FileTooLarge(size) == size > 10 * 1024 * 1024

\* A budget of four.
maxRetriesFour == 3 + 1

maxRetries == 3

LoopContinues(att, succ) == att < maxRetries /\ ~succ

\* The payload is not looked at.
PayloadNeverMissing(res) == FALSE

\* !result || !result.base64img
PayloadMissing(res) == ~res.defined \/ res.base64img = ""

\* The rate limit is slept on after the last attempt too.
ShouldRetryOnLastAttempt(err, att) == err.status = 429 /\ att <= maxRetries

\* Every error is retried, not only the rate limit.
ShouldRetryAnyError(err, att) == att < maxRetries

\* error.response?.status === 429 && attempt < maxRetries
ShouldRetry(err, att) == err.status = 429 /\ att < maxRetries

\* The delay grows with base three.
BackoffDelayBaseThree(att) == (3 ^ att) * 1000

\* The exponent taken one too low.
BackoffDelayOffByOne(att) == (2 ^ (att - 1)) * 1000

\* Math.pow(2, attempt) * 1000
BackoffDelay(att) == (2 ^ att) * 1000

\* Only the error's own message is looked at.
ErrorMessageLocalOnly(err) ==
    IF err.message # "" THEN err.message ELSE "Failed to remove background"

\* error.response?.data?.errors?.[0]?.title || error.response?.data?.message
\*   || error.message || 'Failed to remove background'
ErrorMessage(err) ==
    IF err.title # "" THEN err.title
    ELSE IF err.dataMessage # "" THEN err.dataMessage
    ELSE IF err.message # "" THEN err.message
    ELSE "Failed to remove background"

\* The upstream status is dropped.
ErrorStatusAlways500(err) == 500

\* error.response?.status || 500
ErrorStatus(err) == IF err.status # 0 THEN err.status ELSE 500

\* new Error('Invalid response from background removal service')
InvalidResponseError ==
    [status |-> 0, title |-> "", dataMessage |-> "",
     message |-> "Invalid response from background removal service"]

(***************************************************************************)
(* Responses.                                                              *)
(***************************************************************************)

NoResponse == [status |-> 0, error |-> "", images |-> {}]

ErrorResponse(msg, code) == [status |-> code, error |-> msg, images |-> {}]

DataUri(name, buf) ==
    [name |-> name, mime |-> "image/png", encoding |-> buf.format,
     width |-> buf.width, height |-> buf.height]

\* The composite is left out of the result.
ResultResponseWithoutCombined(orig, noBg, blurred, comb) ==
    [status |-> 200, error |-> "",
     images |-> { DataUri("original", orig),
                  DataUri("noBackground", noBg),
                  DataUri("blurredBackground", blurred) }]

\* The ProcessedImage object, NextResponse.json(resultImage).
ResultResponse(orig, noBg, blurred, comb) ==
    [status |-> 200, error |-> "",
     images |-> { DataUri("original", orig),
                  DataUri("noBackground", noBg),
                  DataUri("blurredBackground", blurred),
                  DataUri("combined", comb) }]

ArtifactNames == {"original", "noBackground", "blurredBackground", "combined"}

NamesOf(resp) == { i.name : i \in resp.images }

Last(s) == s[Len(s)]

(***************************************************************************)
(* The remove.bg pipeline: POST, route.ts:8-208.                           *)
(***************************************************************************)

Files ==
    {NoFile} \cup
    { [present |-> TRUE, size |-> s, type |-> t] : s \in FileSizes, t \in FileTypes }

\* What sharp reports for the uploaded bytes: a decode failure, or a width
\* and a height, either of which may be missing (0).
MetadataOutcomes ==
    { [ok |-> FALSE, width |-> 0, height |-> 0, format |-> ""] } \cup
    { [ok |-> TRUE, width |-> w, height |-> h, format |-> f] :
        w \in SrcDims \cup {0}, h \in SrcDims \cup {0}, f \in ImageFormats }

\* No planning under way.
PlannerIdle ==
    [state |-> "idle", width |-> 0, height |-> 0, maxDim |-> 0,
     out |-> NoDimensions, again |-> NoDimensions]

\* The handler has been entered and nothing has run yet.
PostInit ==
    /\ pc = "receive"
    /\ bodyRead = FALSE
    /\ file = NoFile
    /\ blurAmount = 0
    /\ metadata = NoMetadata
    /\ resizeDimensions = NoDimensions
    /\ resizedImage = NoBuffer
    /\ attempt = 0
    /\ success = FALSE
    /\ result = NoResult
    /\ noBackgroundBuffer = NoBuffer
    /\ blurredBuffer = NoBuffer
    /\ combined = NoBuffer
    /\ whiteBackground = NoBuffer
    /\ response = NoResponse
    /\ calls = 0
    /\ delays = << >>
    /\ outcomes = << >>
    /\ stages = << >>

NoUpload == [name |-> "", type |-> "", droppedName |-> ""]

\* The component as mounted: useState(false), useState(null).
UploaderInit ==
    /\ upc = "idle"
    /\ isProcessing = FALSE
    /\ error = ""
    /\ upload = NoUpload
    /\ conversions = 0
    /\ requests = 0
    /\ conversionFailed = FALSE
    /\ processed = 0
    /\ drops = 0

\* No file chosen: useState<File | null>(null).
NoSelection == [name |-> "", type |-> "", id |-> 0]

\* No response body handed to the display: useState<any>(null).
NoBody == [kind |-> "none", of |-> ""]

NoJob == [stage |-> "none", file |-> NoSelection]

\* useState(20), nothing sent yet.
SliderIdle ==
    [state |-> "idle", value |-> 20, field |-> [int |-> 0, half |-> FALSE], radius |-> 0]

\* Home and the ImageUploader of part_004 as mounted.
ClientInit ==
    /\ slider = SliderIdle
    /\ selectedImage = NoSelection
    /\ processedImages = NoBody
    /\ loading = FALSE
    /\ selectedFile = NoSelection
    /\ job = NoJob
    /\ cleared = 0

Init ==
    /\ apiKey \in BOOLEAN
    /\ PostInit
    /\ planner = PlannerIdle
    /\ variant = "none"
    /\ UploaderInit
    /\ ClientInit

\* return NextResponse.json({ error }, { status }): the handler is over.
Respond(resp) ==
    /\ response' = resp
    /\ pc' = "done"
    /\ stages' = Append(stages, IF resp.images = {} THEN "Failed" ELSE "Done")

\* Leave one stage for the next.
Enter(position, stage) ==
    /\ pc' = position
    /\ stages' = Append(stages, stage)
    /\ UNCHANGED response

SharpError == ErrorResponse("Error processing image with Sharp", 500)

UnexpectedError ==
    ErrorResponse("An unexpected error occurred while processing the image. Please try again.", 500)

\* The key is not looked at.
ApiKeyNeverMissing(key) == FALSE

\* !REMOVE_BG_API_KEY
ApiKeyMissing(key) == ~key

\* route.ts:9-21 and, for a body that cannot be parsed, the catch at 196-207.
ReceiveRequest ==
    /\ pc = "receive"
    /\ IF ApiKeyMissing(apiKey)
       THEN /\ Respond(ErrorResponse("Server configuration error: Remove.bg API key not found", 500))
            /\ UNCHANGED <<bodyRead, file, blurAmount>>
       ELSE /\ bodyRead' = TRUE
            /\ \/ /\ Respond(UnexpectedError)
                  /\ UNCHANGED <<file, blurAmount>>
               \/ \E f \in Files, b \in BlurFields :
                      /\ file' = f
                      /\ blurAmount' = BlurAmountOf(b)
                      /\ Enter("validate", "Validating")
    /\ UNCHANGED <<apiKey, aside, metadata, resizeDimensions, resizedImage, attempt,
                   success, result, noBackgroundBuffer, blurredBuffer, combined,
                   whiteBackground, calls, delays, outcomes>>

\* route.ts:23-55
ValidateFile ==
    /\ pc = "validate"
    /\ IF ~file.present
       THEN Respond(ErrorResponse("No image file provided", 400))
       ELSE IF FileTooLarge(file.size)
       THEN Respond(ErrorResponse("Image file too large (max 10MB)", 400))
       ELSE IF ~StartsWithImage(file.type)
       THEN Respond(ErrorResponse("Invalid file type. Please upload an image.", 400))
       ELSE /\ pc' = "buffer"
            /\ UNCHANGED <<response, stages>>
    /\ UNCHANGED <<apiKey, aside, bodyRead, file, blurAmount, metadata, resizeDimensions,
                   resizedImage, attempt, success, result, noBackgroundBuffer,
                   blurredBuffer, combined, whiteBackground, calls, delays, outcomes>>

\* route.ts:55-67: buffer.length is the size of the file.
ValidateBuffer ==
    /\ pc = "buffer"
    /\ IF file.size = 0
       THEN Respond(ErrorResponse("Invalid image data", 400))
       ELSE Enter("metadata", "Resizing")
    /\ UNCHANGED <<apiKey, aside, bodyRead, file, blurAmount, metadata, resizeDimensions,
                   resizedImage, attempt, success, result, noBackgroundBuffer,
                   blurredBuffer, combined, whiteBackground, calls, delays, outcomes>>

\* The dimensions are not looked at.
DimensionsNeverMissing(m) == FALSE

\* !metadata.width || !metadata.height
DimensionsMissing(m) == m.width = 0 \/ m.height = 0

\* route.ts:70-97; a throw of sharp is caught at 188-194.
ReadMetadata ==
    /\ pc = "metadata"
    /\ \E m \in MetadataOutcomes :
        IF ~m.ok
        THEN /\ Respond(SharpError)
             /\ UNCHANGED <<metadata, resizeDimensions>>
        ELSE /\ metadata' = [width |-> m.width, height |-> m.height,
                              format |-> m.format]
             /\ IF DimensionsMissing(m)
                THEN /\ Respond(ErrorResponse("Invalid image dimensions", 400))
                     /\ UNCHANGED resizeDimensions
                ELSE /\ resizeDimensions' =
                            calculateResizeDimensions(m.width, m.height, maxDimension)
                     /\ pc' = "resize"
                     /\ UNCHANGED <<response, stages>>
    /\ UNCHANGED <<apiKey, aside, bodyRead, file, blurAmount, resizedImage, attempt,
                   success, result, noBackgroundBuffer, blurredBuffer, combined,
                   whiteBackground, calls, delays, outcomes>>

\* route.ts:100-113: the resize, then the loop variables and the first test
\* of the while condition.
ResizeBase ==
    /\ pc = "resize"
    /\ \E decodes \in BOOLEAN :
        IF ~decodes \/ ~ResizeArgsValid(resizeDimensions)
        THEN /\ Respond(SharpError)
             /\ UNCHANGED <<resizedImage, attempt, success>>
        ELSE /\ resizedImage' =
                    Buffer(InsideFit(metadata.width, metadata.height,
                                     resizeDimensions.width, resizeDimensions.height),
                           metadata.format)
             /\ attempt' = 0
             /\ success' = FALSE
             /\ Enter(IF LoopContinues(0, FALSE) THEN "callService" ELSE "resizeMatte",
                      "Matting")
    /\ UNCHANGED <<apiKey, aside, bodyRead, file, blurAmount, metadata, resizeDimensions,
                   result, noBackgroundBuffer, blurredBuffer, combined,
                   whiteBackground, calls, delays, outcomes>>

\* route.ts:128-145: the catch block of the loop body.
Catch(err) ==
    /\ attempt' = attempt + 1
    /\ IF ShouldRetry(err, attempt + 1)
       THEN /\ delays' = Append(delays, BackoffDelay(attempt + 1))
            /\ pc' = "backoff"
            /\ UNCHANGED <<response, stages>>
       ELSE /\ Respond(ErrorResponse("Background removal failed: " \o ErrorMessage(err),
                                     ErrorStatus(err)))
            /\ UNCHANGED delays

\* route.ts:114-146: one pass of the loop body up to its next await.
CallService ==
    /\ pc = "callService"
    /\ calls' = calls + 1
    /\ \E o \in ServiceOutcomes :
        /\ outcomes' = Append(outcomes, o)
        /\ IF o.ok
           THEN /\ result' = o.result
                /\ success' = TRUE
                /\ IF PayloadMissing(o.result)
                   THEN Catch(InvalidResponseError)
                   ELSE /\ pc' = IF LoopContinues(attempt, TRUE)
                                 THEN "callService" ELSE "resizeMatte"
                        /\ UNCHANGED <<attempt, delays, response, stages>>
           ELSE /\ Catch(o.error)
                /\ UNCHANGED <<result, success>>
    /\ UNCHANGED <<apiKey, aside, bodyRead, file, blurAmount, metadata, resizeDimensions,
                   resizedImage, noBackgroundBuffer, blurredBuffer, combined,
                   whiteBackground>>

\* route.ts:116: the awaited call never settles.  The handler has no timer
\* of its own around it, so nothing of the handler runs again.
ServiceHangs ==
    /\ pc = "callService"
    /\ calls' = calls + 1
    /\ pc' = "hung"
    /\ UNCHANGED <<apiKey, aside, bodyRead, file, blurAmount, metadata, resizeDimensions,
                   resizedImage, attempt, success, result, noBackgroundBuffer,
                   blurredBuffer, combined, whiteBackground, response, delays,
                   outcomes, stages>>

\* route.ts:134 and 114: the timer fires and the while condition is tested.
Backoff ==
    /\ pc = "backoff"
    /\ pc' = IF LoopContinues(attempt, success) THEN "callService" ELSE "resizeMatte"
    /\ UNCHANGED <<apiKey, aside, bodyRead, file, blurAmount, metadata, resizeDimensions,
                   resizedImage, attempt, success, result, noBackgroundBuffer,
                   blurredBuffer, combined, whiteBackground, response, calls,
                   delays, outcomes, stages>>

\* The decodable payload of the service is a PNG image (remove.bg's answer
\* for a cut-out with transparency).
PayloadFormat(res) == "png"

\* route.ts:150-155: result.base64img of an undefined result throws, and so
\* does sharp on bytes that are no image.
ResizeMatte ==
    /\ pc = "resizeMatte"
    /\ IF ~result.defined \/ result.base64img # "img"
          \/ ~ResizeArgsValid(resizeDimensions)
       THEN /\ Respond(SharpError)
            /\ UNCHANGED noBackgroundBuffer
       ELSE /\ noBackgroundBuffer' =
                   Buffer(ContainFit(resizeDimensions.width, resizeDimensions.height),
                          PayloadFormat(result))
            /\ Enter("blur", "StylingBackground")
    /\ UNCHANGED <<apiKey, aside, bodyRead, file, blurAmount, metadata, resizeDimensions,
                   resizedImage, attempt, success, result, blurredBuffer, combined,
                   whiteBackground, calls, delays, outcomes>>

\* route.ts:159-165
BlurBackground ==
    /\ pc = "blur"
    /\ IF ~BlurArgValid(blurAmount)
       THEN /\ Respond(SharpError)
            /\ UNCHANGED blurredBuffer
       ELSE /\ blurredBuffer' = resizedImage
            /\ Enter("composite", "Compositing")
    /\ UNCHANGED <<apiKey, aside, bodyRead, file, blurAmount, metadata, resizeDimensions,
                   resizedImage, attempt, success, result, noBackgroundBuffer,
                   combined, whiteBackground, calls, delays, outcomes>>

\* sharp's composite takes an overlay of the base's size or smaller and
\* throws on a larger one.
OverlayFits(base, overlay) ==
    overlay.width <= base.width /\ overlay.height <= base.height

\* route.ts:169-176
Composite ==
    /\ pc = "composite"
    /\ IF ~OverlayFits(blurredBuffer, noBackgroundBuffer)
       THEN /\ Respond(SharpError)
            /\ UNCHANGED combined
       ELSE /\ combined' = blurredBuffer
            /\ Enter("encode", "Encoding")
    /\ UNCHANGED <<apiKey, aside, bodyRead, file, blurAmount, metadata, resizeDimensions,
                   resizedImage, attempt, success, result, noBackgroundBuffer,
                   blurredBuffer, whiteBackground, calls, delays, outcomes>>

\* route.ts:178-186
Encode ==
    /\ pc = "encode"
    /\ Respond(ResultResponse(resizedImage, noBackgroundBuffer, blurredBuffer, combined))
    /\ UNCHANGED <<apiKey, aside, bodyRead, file, blurAmount, metadata, resizeDimensions,
                   resizedImage, attempt, success, result, noBackgroundBuffer,
                   blurredBuffer, combined, whiteBackground, calls, delays, outcomes>>

Next ==
    \/ ReceiveRequest
    \/ ValidateFile
    \/ ValidateBuffer
    \/ ReadMetadata
    \/ ResizeBase
    \/ CallService
    \/ ServiceHangs
    \/ Backoff
    \/ ResizeMatte
    \/ BlurBackground
    \/ Composite
    \/ Encode

Spec == Init /\ [][Next]_vars

TypeOK ==
    /\ apiKey \in BOOLEAN
    /\ pc \in {"receive", "validate", "buffer", "metadata", "resize", "callService",
               "hung", "backoff", "resizeMatte", "blur", "composite", "encode", "done"}
    /\ attempt \in 0..maxRetries
    /\ calls \in 0..maxRetries

(***************************************************************************)
(* The locally synthesized mask variant: POST, route.ts:230-302.           *)
(***************************************************************************)

LocalError == ErrorResponse("Failed to process image", 500)

\* route.ts:231-244; a body that cannot be parsed is caught at 295-301.
LocalReceive ==
    /\ pc = "receive"
    /\ bodyRead' = TRUE
    /\ \/ /\ Respond(LocalError)
          /\ UNCHANGED file
       \/ \E f \in Files :
            /\ file' = f
            /\ IF ~f.present
               THEN Respond(ErrorResponse("No image file provided", 400))
               ELSE Enter("localResize", "Resizing")
    /\ UNCHANGED <<apiKey, aside, blurAmount, metadata, resizeDimensions, resizedImage,
                   attempt, success, result, noBackgroundBuffer, blurredBuffer,
                   combined, whiteBackground, calls, delays, outcomes>>

\* route.ts:247-252: the image is decoded here for the first time.
LocalResize ==
    /\ pc = "localResize"
    /\ \E m \in MetadataOutcomes :
        IF ~m.ok \/ m.width = 0 \/ m.height = 0 \/ file.size = 0
        THEN /\ Respond(LocalError)
             /\ UNCHANGED <<metadata, resizedImage>>
        ELSE /\ metadata' = [width |-> m.width, height |-> m.height,
                              format |-> m.format]
             /\ resizedImage' = Buffer(InsideFit(m.width, m.height, 800, 800), m.format)
             /\ Enter("localMask", "Matting")
    /\ UNCHANGED <<apiKey, aside, bodyRead, file, blurAmount, resizeDimensions, attempt,
                   success, result, noBackgroundBuffer, blurredBuffer, combined,
                   whiteBackground, calls, delays, outcomes>>

\* route.ts:255-258: mask = greyscale().blur(20) of the resized image.
LocalMask ==
    /\ pc = "localMask"
    /\ blurredBuffer' = resizedImage
    /\ Enter("localBackground", "StylingBackground")
    /\ UNCHANGED <<apiKey, aside, bodyRead, file, blurAmount, metadata, resizeDimensions,
                   resizedImage, attempt, success, result, noBackgroundBuffer,
                   combined, whiteBackground, calls, delays, outcomes>>

\* route.ts:261-270
LocalBackground ==
    /\ pc = "localBackground"
    /\ whiteBackground' = [width |-> 800, height |-> 800, format |-> "png"]
    /\ Enter("localComposite", "Compositing")
    /\ UNCHANGED <<apiKey, aside, bodyRead, file, blurAmount, metadata, resizeDimensions,
                   resizedImage, attempt, success, result, noBackgroundBuffer,
                   blurredBuffer, combined, calls, delays, outcomes>>

\* route.ts:273-294: the composite keeps the size of its base, and the
\* result is returned with the resized image standing in for the matte.
LocalComposite ==
    /\ pc = "localComposite"
    /\ IF ~OverlayFits(whiteBackground, blurredBuffer)
          \/ ~OverlayFits(whiteBackground, resizedImage)
       THEN /\ Respond(LocalError)
            /\ UNCHANGED combined
       ELSE /\ combined' = whiteBackground
            /\ Respond(ResultResponse(resizedImage, resizedImage, blurredBuffer,
                                      whiteBackground))
    /\ UNCHANGED <<apiKey, aside, bodyRead, file, blurAmount, metadata, resizeDimensions,
                   resizedImage, attempt, success, result, noBackgroundBuffer,
                   blurredBuffer, whiteBackground, calls, delays, outcomes>>

NextLocal ==
    \/ LocalReceive
    \/ LocalResize
    \/ LocalMask
    \/ LocalBackground
    \/ LocalComposite

SpecLocal == Init /\ [][NextLocal]_vars

(***************************************************************************)
(* Properties of the retry loop.                                           *)
(***************************************************************************)

\* The call was refused with HTTP 429.
IsRateLimited(o) == ~o.ok /\ o.error.status = 429

\* The call resolved with a non-empty payload.
GotPayload(o) == o.ok /\ o.result.defined /\ o.result.base64img # ""

\* The call resolved, but with no result or an empty payload.
IsEmptyPayload(o) == o.ok /\ ~(o.result.defined /\ o.result.base64img # "")

\* The call failed in any way other than an HTTP 429.
IsOtherFailure(o) == IsEmptyPayload(o) \/ (~o.ok /\ o.error.status # 429)

InLoop == pc \in {"callService", "backoff"}

AfterLoop == pc \in {"resizeMatte", "blur", "composite", "encode"}

IsMatteFailure(resp) ==
    resp.images = {} /\ resp.error # ""
    /\ resp.error # "Error processing image with Sharp"

RetriedTwiceThenPayload ==
    /\ Len(outcomes) = 3
    /\ IsRateLimited(outcomes[1])
    /\ IsRateLimited(outcomes[2])
    /\ GotPayload(outcomes[3])

\* C1: when the matte service answers 429 on attempts 1 and 2 and delivers a
\* non-empty payload on attempt 3, the loop is left with success after
\* exactly 3 service calls and exactly 2 delays, 2000 ms and then 4000 ms,
\* and the pipeline goes on to the later stages with no matte failure.
C1_RetryTwiceThenSuccess ==
    /\ RetriedTwiceThenPayload =>
          /\ calls = 3
          /\ delays = <<2000, 4000>>
          /\ success
          /\ ~InLoop
          /\ ~IsMatteFailure(response)
    /\ (Len(outcomes) = 1 /\ IsRateLimited(outcomes[1])) => delays = <<2000>>

C1_Witness ==
    /\ RetriedTwiceThenPayload
    /\ pc = "done"
    /\ response.status = 200

\* C2: a matte-service call that fails with anything other than HTTP 429 (an
\* error with another status, an error with no response, a missing or empty
\* payload), on whichever attempt, ends the request at once: it is the last
\* call, no delay follows it, and no later stage (matte resize, blur,
\* composite) runs.
C2_OtherFailureAborts ==
    \A i \in 1..Len(outcomes) :
        IsOtherFailure(outcomes[i]) =>
            /\ i = Len(outcomes)
            /\ calls = i
            /\ Len(delays) = i - 1
            /\ pc = "done"
            /\ IsMatteFailure(response)
            /\ noBackgroundBuffer = NoBuffer
            /\ blurredBuffer = NoBuffer
            /\ combined = NoBuffer
            /\ Last(stages) = "Failed"
            /\ \A k \in 1..Len(stages) :
                   stages[k] \notin {"StylingBackground", "Compositing", "Encoding", "Done"}

C2_Witness ==
    /\ Len(outcomes) = 2
    /\ IsRateLimited(outcomes[1])
    /\ ~outcomes[2].ok
    /\ outcomes[2].error.status = 403
    /\ pc = "done"

\* The handler never stops while one of its steps can still be taken.
FairSpec == Spec /\ WF_vars(Next)

\* C3: whatever the matte service answers (payload, 429, other error, missing
\* payload), one request makes at most 3 service calls, and the retry loop,
\* once entered, is left, unless a service call never returns.
C3_AtMostThreeCalls ==
    /\ [](calls <= 3 /\ Len(outcomes) <= 3 /\ Len(delays) <= 2)
    /\ (InLoop ~> ~InLoop)

C3_Witness ==
    /\ calls = 3
    /\ \A i \in 1..3 : i \in DOMAIN outcomes /\ IsRateLimited(outcomes[i])
    /\ pc = "done"

RateLimitedThrice ==
    /\ Len(outcomes) = 3
    /\ \A i \in 1..3 : IsRateLimited(outcomes[i])

\* C4 as stated: after three 429 answers the request fails with a
\* matte-service error whose reason is "retries_exhausted".
C4_RetriesExhaustedReason ==
    (pc = "done" /\ RateLimitedThrice) =>
        response.error \in {"retries_exhausted",
                            "Background removal failed: retries_exhausted"}

\* C4, amended: after three 429 answers the request fails right after the
\* third call, with two delays and no third one, and the error reported is
\* the upstream one: status 429 and the upstream message behind the prefix
\* "Background removal failed: ".
C4_RateLimitedThriceFails ==
    RateLimitedThrice =>
        /\ pc = "done"
        /\ calls = 3
        /\ attempt = 3
        /\ delays = <<2000, 4000>>
        /\ response.status = 429
        /\ response.error = "Background removal failed: Rate limit exceeded"
        /\ response.images = {}

C4_Witness ==
    /\ RateLimitedThrice
    /\ pc = "done"
    /\ Last(stages) = "Failed"

\* C5 as stated: after a call that resolved with a missing or empty payload
\* the retry loop is not left until a non-empty payload is obtained or the
\* 3 attempts are used up.
C5_EmptyPayloadRetried ==
    ((\E i \in 1..Len(outcomes) : IsEmptyPayload(outcomes[i])) /\ ~InLoop) =>
        (GotPayload(Last(outcomes)) \/ Len(outcomes) = 3)

\* C5, amended: a call that resolves with a missing or empty payload counts
\* as one failed attempt (attempt is incremented) and ends the request at
\* once with status 500 and the message "Invalid response from background
\* removal service": no delay follows and no further call is made.
C5_EmptyPayloadAborts ==
    \A i \in 1..Len(outcomes) :
        IsEmptyPayload(outcomes[i]) =>
            /\ i = Len(outcomes)
            /\ attempt = i
            /\ calls = i
            /\ Len(delays) = i - 1
            /\ pc = "done"
            /\ response.status = 500
            /\ response.error =
                 "Background removal failed: Invalid response from background removal service"
            /\ response.images = {}

C5_Witness ==
    /\ Len(outcomes) = 2
    /\ IsRateLimited(outcomes[1])
    /\ outcomes[2].ok
    /\ outcomes[2].result.defined
    /\ outcomes[2].result.base64img = ""
    /\ pc = "done"

(***************************************************************************)
(* Properties of the whole request.                                        *)
(***************************************************************************)

\* C6: every response is either a result with all four artifacts (original,
\* noBackground, blurredBackground, combined) and no error, or one error
\* with no artifact; nothing is returned before the handler is done.
C6_AllOrNothing ==
    /\ pc = "done" =>
          \/ /\ NamesOf(response) = ArtifactNames
             /\ Cardinality(response.images) = 4
             /\ response.error = ""
             /\ response.status = 200
          \/ /\ response.images = {}
             /\ response.error # ""
             /\ response.status >= 400
    /\ pc # "done" => response = NoResponse

\* A failure at the last fallible stage: every intermediate buffer exists
\* and none is returned.
C6_Witness ==
    /\ pc = "done"
    /\ blurredBuffer # NoBuffer
    /\ noBackgroundBuffer # NoBuffer
    /\ response.images = {}
    /\ response.status = 500

ReachedValidation == stages # << >> /\ stages[1] = "Validating"

BadFile ==
    \/ ~file.present
    \/ file.size = 0
    \/ file.size > 10 * 1024 * 1024
    \/ file.type \notin {"image/jpeg", "image/png"}

\* C7: a request whose file is missing, is empty, is larger than 10 MiB or
\* has a MIME type outside image/* never reaches the matte service and,
\* once the handler has the form data, is answered with a 400 validation
\* error; a file of exactly 10 MiB is not rejected for its size.
C7_InvalidFileRejected ==
    /\ BadFile => calls = 0
    /\ (ReachedValidation /\ BadFile) =>
          /\ pc \in {"validate", "buffer", "done"}
          /\ resizedImage = NoBuffer
          /\ pc = "done" => (response.status = 400 /\ response.images = {})
    /\ (ReachedValidation /\ file.present /\ file.size = 10 * 1024 * 1024) =>
          response.error # "Image file too large (max 10MB)"

C7_Witness ==
    /\ ReachedValidation
    /\ file.present
    /\ file.size = 10 * 1024 * 1024 + 1
    /\ file.type = "image/jpeg"
    /\ pc = "done"
    /\ response.status = 400

StageOrder ==
    <<"Validating", "Resizing", "Matting", "StylingBackground", "Compositing",
      "Encoding", "Done">>

IsPrefix(s, t) == Len(s) <= Len(t) /\ \A i \in 1..Len(s) : s[i] = t[i]

\* The stages entered, without a closing "Failed".
StagesRun ==
    IF stages # << >> /\ Last(stages) = "Failed"
    THEN SubSeq(stages, 1, Len(stages) - 1)
    ELSE stages

\* C8: the stages of one request are entered in the order Validating,
\* Resizing, Matting, StylingBackground, Compositing, Encoding, Done; the
\* matte service is called only once a valid file was resized, blur and
\* composite start only after a non-empty matte payload was obtained, and
\* after a failure no stage starts.
C8_StagesInOrder ==
    /\ IsPrefix(StagesRun, StageOrder)
    /\ calls > 0 =>
          /\ Len(StagesRun) >= 3
          /\ file.present
          /\ file.size > 0
          /\ file.size <= 10 * 1024 * 1024
          /\ file.type \in {"image/jpeg", "image/png"}
          /\ resizedImage.width > 0
          /\ resizedImage.height > 0
    /\ (pc \in {"blur", "composite", "encode"} \/ blurredBuffer # NoBuffer
        \/ combined # NoBuffer \/ Len(StagesRun) >= 4) =>
          /\ outcomes # << >>
          /\ GotPayload(Last(outcomes))
          /\ result = Last(outcomes).result
    /\ (stages # << >> /\ Last(stages) \in {"Failed", "Done"}) => pc = "done"

C8_Witness ==
    /\ stages = StageOrder
    /\ pc = "done"
    /\ calls = 2

\* C9: when the composite is called, the backdrop plate and the resized
\* matte have the same width and the same height.
C9_SameGeometryAtComposite ==
    pc = "composite" =>
        /\ noBackgroundBuffer.width = blurredBuffer.width
        /\ noBackgroundBuffer.height = blurredBuffer.height

\* C10: in every successful result the composite has the pixel dimensions
\* of the resized original of the same result.
C10_CompositeMatchesOriginal ==
    response.status = 200 =>
        \A o \in response.images, c \in response.images :
            (o.name = "original" /\ c.name = "combined") =>
                (c.width = o.width /\ c.height = o.height)

(***************************************************************************)
(* calculateResizeDimensions on its own: route.ts:210-224.                 *)
(***************************************************************************)

\* Largest source width and height tried.
MaxSrcDim == 12

\* Largest maxDimension tried.
MaxBound == 6

PlannerInputs ==
    { [state |-> "input", width |-> w, height |-> h, maxDim |-> m,
       out |-> NoDimensions, again |-> NoDimensions] :
        w \in 1..MaxSrcDim, h \in 1..MaxSrcDim, m \in 1..MaxBound }

InitPlan ==
    /\ apiKey = TRUE
    /\ PostInit
    /\ planner \in PlannerInputs
    /\ variant = "none"
    /\ UploaderInit
    /\ ClientInit

postVars ==
    <<apiKey, pc, bodyRead, file, blurAmount, metadata, resizeDimensions,
      resizedImage, attempt, success, result, noBackgroundBuffer, blurredBuffer,
      combined, whiteBackground, response, calls, delays, outcomes, stages>>

uploaderVars ==
    <<variant, upc, isProcessing, error, upload, conversions, requests,
      conversionFailed, processed, drops>>

clientVars ==
    <<slider, selectedImage, processedImages, loading, selectedFile, job, cleared>>

\* calculateResizeDimensions(width, height, maxDimension)
Plan ==
    /\ planner.state = "input"
    /\ planner' = [planner EXCEPT
                     !.state = "planned",
                     !.out = calculateResizeDimensions(planner.width, planner.height,
                                                       planner.maxDim)]
    /\ UNCHANGED <<postVars, uploaderVars, clientVars>>

\* The same call on the dimensions just returned.
Replan ==
    /\ planner.state = "planned"
    /\ planner' = [planner EXCEPT
                     !.state = "replanned",
                     !.again = calculateResizeDimensions(planner.out.width,
                                                         planner.out.height,
                                                         planner.maxDim)]
    /\ UNCHANGED <<postVars, uploaderVars, clientVars>>

NextPlan ==
    \/ Plan
    \/ Replan

SpecPlan == InitPlan /\ [][NextPlan]_vars

Planned == planner.state \in {"planned", "replanned"}

\* C11: for all positive w, h and M the width and the height returned by
\* calculateResizeDimensions(w, h, M) are both at most M.
C11_WithinBound ==
    Planned =>
        /\ planner.out.width <= planner.maxDim
        /\ planner.out.height <= planner.maxDim

C11_Witness ==
    /\ Planned
    /\ planner.width > planner.maxDim
    /\ planner.height > planner.maxDim
    /\ planner.width > planner.height

\* C12: calculateResizeDimensions(w, h, M) returns exactly (w, h) whenever
\* w <= M and h <= M.
C12_UnchangedWithinBound ==
    (Planned /\ planner.width <= planner.maxDim /\ planner.height <= planner.maxDim) =>
        /\ planner.out.width = planner.width
        /\ planner.out.height = planner.height

C12_Witness ==
    /\ Planned
    /\ planner.width < planner.height
    /\ planner.height < planner.maxDim

\* C13: for all positive w, h and M the width and the height returned by
\* calculateResizeDimensions are positive, never 0.
C13_PositiveDimensions ==
    Planned =>
        /\ planner.out.width > 0
        /\ planner.out.height > 0

\* n is a / b rounded to the nearest integer, halves up.
IsRounded(n, a, b) == 2 * n * b - b <= 2 * a /\ 2 * a < 2 * n * b + b

\* n is within one of a / b.
WithinOne(n, a, b) == (n - 1) * b <= a /\ a <= (n + 1) * b

\* C14: when w > M or h > M the longer axis becomes exactly M and the
\* shorter axis becomes round(shorter * M / longer), which is within one
\* pixel of the exact value; a square source becomes M by M.
C14_LongAxisIsBound ==
    (Planned /\ (planner.width > planner.maxDim \/ planner.height > planner.maxDim)) =>
        LET w == planner.width
            h == planner.height
            m == planner.maxDim
        IN  /\ w > h => /\ planner.out.width = m
                        /\ IsRounded(planner.out.height, h * m, w)
                        /\ WithinOne(planner.out.height, h * m, w)
            /\ h > w => /\ planner.out.height = m
                        /\ IsRounded(planner.out.width, w * m, h)
                        /\ WithinOne(planner.out.width, w * m, h)
            /\ w = h => /\ planner.out.width = m
                        /\ planner.out.height = m

\* A wide source whose short side falls on a half and is rounded up.
C14_Witness ==
    /\ Planned
    /\ planner.width = 4
    /\ planner.height = 3
    /\ planner.maxDim = 2
    /\ planner.out.height = 2

\* C15: calculateResizeDimensions applied to its own output with the same M
\* returns that output unchanged.
C15_Idempotent ==
    planner.state = "replanned" => planner.again = planner.out

C15_Witness ==
    /\ planner.state = "replanned"
    /\ planner.out # [width |-> planner.width, height |-> planner.height]

(***************************************************************************)
(* Properties of the failure reports and of the encoded result.            *)
(***************************************************************************)

\* The request ended at the metadata step: sharp could not read the image
\* (metadata still unset) or reported no width or no height.
MetadataFailed ==
    /\ pc = "done"
    /\ StagesRun = <<"Validating", "Resizing">>
    /\ (metadata.width = 0 \/ metadata.height = 0)

\* C16 as stated: when the metadata cannot be read or lacks a width or a
\* height, a default target is substituted and the request goes on to a
\* successful result.
C16_DefaultTargetOnMetadataFailure ==
    MetadataFailed =>
        /\ response.status = 200
        /\ NamesOf(response) = ArtifactNames

\* C16, amended: when the metadata cannot be read the request is aborted
\* with status 500 ("Error processing image with Sharp"), and when it
\* reports a missing or zero width or height the request is aborted with
\* status 400 ("Invalid image dimensions"); no target is computed, nothing
\* is resized and the matte service is not called.
C16_MetadataFailureAborts ==
    MetadataFailed =>
        /\ response.images = {}
        /\ resizeDimensions = NoDimensions
        /\ resizedImage = NoBuffer
        /\ calls = 0
        /\ IF metadata = NoMetadata
           THEN /\ response.status = 500
                /\ response.error = "Error processing image with Sharp"
           ELSE /\ response.status = 400
                /\ response.error = "Invalid image dimensions"

C16_Witness ==
    /\ MetadataFailed
    /\ metadata.width = 0
    /\ metadata.height = 600
    /\ response.status = 400

\* C18: every data URI of a successful result declares the MIME type of the
\* encoding its bytes really have, and the original, the matte and the
\* composite are PNG-encoded whatever the format of the upload.
C18_MimeMatchesEncoding ==
    response.status = 200 =>
        \A i \in response.images :
            /\ i.mime = "image/" \o i.encoding
            /\ i.name \in {"original", "noBackground", "combined"} => i.encoding = "png"

\* The request ended with the report of an error thrown by the service call.
ServiceErrorReported == pc = "done" /\ outcomes # << >> /\ ~Last(outcomes).ok

\* C19: a terminal matte-service failure is reported with the upstream HTTP
\* status when the error carries one (429 after the last attempt included)
\* and with 500 otherwise, and with the upstream message when there is one:
\* the title of the first upstream error, else the upstream message, else
\* the error's own message, else a fixed text.
C19_UpstreamStatusAndMessage ==
    ServiceErrorReported =>
        LET e == Last(outcomes).error
        IN  /\ response.images = {}
            /\ e = RateLimitError =>
                  /\ Len(outcomes) = 3
                  /\ response.status = 429
                  /\ response.error = "Background removal failed: Rate limit exceeded"
            /\ e = AuthError =>
                  /\ response.status = 403
                  /\ response.error = "Background removal failed: Invalid API key"
            /\ e = NetworkError =>
                  /\ response.status = 500
                  /\ response.error = "Background removal failed: socket hang up"
            /\ e = BareError =>
                  /\ response.status = 500
                  /\ response.error = "Background removal failed: Failed to remove background"

C19_Witness ==
    /\ ServiceErrorReported
    /\ Len(outcomes) = 1
    /\ Last(outcomes).error = AuthError
    /\ response.status = 403

\* Every message a matte-service failure can be reported with.
MatteFailureMessages ==
    { "Background removal failed: " \o ErrorMessage(e) :
        e \in ServiceErrors \cup {InvalidResponseError} }

\* C20: when a matte-service call never returns, the request still ends,
\* with a timeout failure that is no matte-service error.
C20_HungCallTimesOut ==
    (pc = "hung") ~>
        (/\ pc = "done"
         /\ response.images = {}
         /\ response.error # ""
         /\ response.error \notin MatteFailureMessages)

(***************************************************************************)
(* The ImageUploader components with a HEIC conversion: onDrop and         *)
(* convertHeicToJpeg.  variant "canvas" is src/unnamed/part_000 (img and   *)
(* canvas, lines 11-112), variant "heic2any" is src/unnamed/part_002       *)
(* (heic2any, lines 16-113).  The server is the environment here: a        *)
(* request is answered with a result, an error or not at all.              *)
(***************************************************************************)

\* Files dropped one after the other.
MaxDrops == 2

DroppedFiles ==
    { [name |-> "a.jpg",  type |-> "image/jpeg", droppedName |-> "a.jpg"],
      [name |-> "b.heic", type |-> "image/heic", droppedName |-> "b.heic"],
      [name |-> "c.heif", type |-> "image/heif", droppedName |-> "c.heif"],
      [name |-> "D.HEIC", type |-> "",           droppedName |-> "D.HEIC"] }

\* String.prototype.toLowerCase on the names above.
ToLowerCase(name) == IF name = "D.HEIC" THEN "d.heic" ELSE name

\* String.prototype.endsWith on the lower-cased names above.
EndsWith(name, suffix) ==
    \/ suffix = ".heic" /\ name \in {"b.heic", "d.heic"}
    \/ suffix = ".heif" /\ name = "c.heif"
    \/ suffix = ".jpg"  /\ name = "a.jpg"

\* The test that guards the conversion, in onDrop and again in
\* convertHeicToJpeg: part_000 looks for .heic only, part_002 for both.
IsHeicName(v, name) ==
    IF v = "canvas"
    THEN EndsWith(ToLowerCase(name), ".heic")
    ELSE EndsWith(ToLowerCase(name), ".heic") \/ EndsWith(ToLowerCase(name), ".heif")

\* part_000: file.name.replace('.heic', '.jpg'), on the name as dropped;
\* part_002: fileName.replace(/\.(heic|heif)$/, '.jpg'), on the lower-cased name.
ConvertedName(v, name) ==
    IF v = "canvas"
    THEN (IF name = "b.heic" THEN "b.jpg" ELSE name)
    ELSE CASE ToLowerCase(name) = "b.heic" -> "b.jpg"
           [] ToLowerCase(name) = "c.heif" -> "c.jpg"
           [] ToLowerCase(name) = "d.heic" -> "d.jpg"
           [] OTHER -> ToLowerCase(name)

\* How a conversion can end: a JPEG file, a throw (the image does not load,
\* heic2any rejects), or, with the canvas, toBlob handing over null, which
\* leaves the awaited promise unresolved.
ConversionOutcomes(v) ==
    IF v = "canvas" THEN {"converted", "failed", "noBlob"} ELSE {"converted", "failed"}

ConversionErrorMessage(v) ==
    IF v = "canvas"
    THEN "Failed to convert HEIC image. Please try converting it to JPEG first."
    ELSE "Failed to convert HEIC/HEIF image. Please try converting it to JPEG first."

\* How the fetch can end: response.ok with the result, an error response
\* with or without an error text, or a rejected fetch.
FetchOutcomes ==
    { [ok |-> TRUE,  rejected |-> FALSE, error |-> ""],
      [ok |-> FALSE, rejected |-> FALSE, error |-> "Image file too large (max 10MB)"],
      [ok |-> FALSE, rejected |-> FALSE, error |-> ""],
      [ok |-> FALSE, rejected |-> TRUE,  error |-> "Failed to fetch"] }

InitUpload ==
    /\ apiKey = TRUE
    /\ PostInit
    /\ planner = PlannerIdle
    /\ variant \in {"canvas", "heic2any"}
    /\ UploaderInit
    /\ ClientInit

\* onDrop up to its first await: part_000:59-96, part_002:57-97.
Drop ==
    /\ upc = "idle"
    /\ drops < MaxDrops
    /\ \E f \in DroppedFiles :
        /\ drops' = drops + 1
        /\ isProcessing' = TRUE
        /\ error' = ""
        /\ upload' = f
        /\ conversionFailed' = FALSE
        /\ IF IsHeicName(variant, f.name)
           THEN /\ conversions' = 1
                /\ requests' = 0
                /\ upc' = "converting"
           ELSE /\ conversions' = 0
                /\ requests' = 1
                /\ upc' = "fetching"
    /\ UNCHANGED <<postVars, planner, clientVars, variant, processed>>

\* The conversion settles: part_000:26-56 and 76-96, part_002:26-54 and 75-97.
ConversionSettles ==
    /\ upc = "converting"
    /\ \E o \in ConversionOutcomes(variant) :
        CASE o = "converted" ->
                /\ upload' = [upload EXCEPT !.name = ConvertedName(variant, upload.name),
                                            !.type = "image/jpeg"]
                /\ requests' = requests + 1
                /\ upc' = "fetching"
                /\ UNCHANGED <<isProcessing, error, conversionFailed>>
          [] o = "failed" ->
                /\ conversionFailed' = TRUE
                /\ error' = ConversionErrorMessage(variant)
                /\ isProcessing' = FALSE
                /\ upc' = "idle"
                /\ UNCHANGED <<upload, requests>>
          [] o = "noBlob" ->
                /\ upc' = "stuck"
                /\ UNCHANGED <<upload, requests, isProcessing, error, conversionFailed>>
    /\ UNCHANGED <<postVars, planner, clientVars, variant, conversions, processed, drops>>

\* The fetch settles: part_000:98-111, part_002:99-112.
FetchSettles ==
    /\ upc = "fetching"
    /\ \E r \in FetchOutcomes :
        IF r.ok
        THEN /\ processed' = processed + 1
             /\ UNCHANGED error
        ELSE /\ error' = IF r.error # "" THEN r.error ELSE "Failed to process image"
             /\ UNCHANGED processed
    /\ isProcessing' = FALSE
    /\ upc' = "idle"
    /\ UNCHANGED <<postVars, planner, clientVars, variant, upload, conversions,
                   requests, conversionFailed, drops>>

NextUpload ==
    \/ Drop
    \/ ConversionSettles
    \/ FetchSettles

SpecUpload == InitUpload /\ [][NextUpload]_vars

\* C17: for a dropped file whose name ends in .heic or .heif one conversion
\* is started, exactly one and before any request; a request is sent only
\* with the converted JPEG; when the conversion fails the drop ends with an
\* error and no request is sent.
C17_HeicNormalizedFirst ==
    upload.droppedName \in {"b.heic", "c.heif"} =>
        /\ conversions = 1
        /\ requests <= 1
        /\ requests = 1 => (upload.type = "image/jpeg" /\ ~conversionFailed)
        /\ conversionFailed =>
              /\ requests = 0
              /\ error # ""
              /\ upc = "idle"
              /\ ~isProcessing

(***************************************************************************)
(* Claims C21 to C25: the blur radius, the backoff and the configuration.  *)
(***************************************************************************)

\* C21: the radius handed to the blur operation lies within the positive
\* range the operation accepts, whatever blurAmount the caller supplied.
C21_BlurRadiusClamped ==
    pc = "blur" => BlurArgValid(blurAmount)

(***************************************************************************)
(* The blur slider of the ImageUploader of src/unnamed/part_004 and the    *)
(* radius the server takes from what it sends (route.ts:21).  The scaled   *)
(* amount is a multiple of one half, so radii are counted in halves here.  *)
(***************************************************************************)

\* <input type="range" min="0" max="100">
SliderMin == 0

SliderMax == 100

\* (blurAmount / 100) * 50, in halves.
ScaledBlurAmount(v) == (v * 50 * 2) \div 100

\* Number.prototype.toString of a multiple of one half: "n" or "n.5".
HalvesToString(h) == [int |-> h \div 2, half |-> h % 2 = 1]

\* Number("n") or Number("n.5"), in halves.
NumberOfDecimal(field) == 2 * field.int + (IF field.half THEN 1 ELSE 0)

\* Number(formData.get('blurAmount')) || 20, in halves: 0 is falsy.
BlurAmountOfDecimal(field) ==
    IF NumberOfDecimal(field) = 0 THEN 2 * 20 ELSE NumberOfDecimal(field)

sliderFrame ==
    <<postVars, planner, uploaderVars, selectedImage, processedImages, loading,
      selectedFile, job, cleared>>

\* onChange={(e) => setBlurAmount(Number(e.target.value))}
SetBlurAmount ==
    /\ \E v \in SliderMin..SliderMax :
          slider' = [SliderIdle EXCEPT !.state = "set", !.value = v]
    /\ UNCHANGED sliderFrame

\* processImage, part_004:69-71
SendBlurAmount ==
    /\ slider.state \in {"idle", "set"}
    /\ slider' = [slider EXCEPT !.state = "sent",
                                !.field = HalvesToString(ScaledBlurAmount(slider.value))]
    /\ UNCHANGED sliderFrame

\* route.ts:21, the value later handed to blur() at route.ts:160
ServerReadsBlurAmount ==
    /\ slider.state = "sent"
    /\ slider' = [slider EXCEPT !.state = "applied",
                                !.radius = BlurAmountOfDecimal(slider.field)]
    /\ UNCHANGED sliderFrame

NextSlider ==
    \/ SetBlurAmount
    \/ SendBlurAmount
    \/ ServerReadsBlurAmount

InitSlider ==
    /\ apiKey = TRUE
    /\ PostInit
    /\ planner = PlannerIdle
    /\ variant = "button"
    /\ UploaderInit
    /\ ClientInit

SpecSlider == InitSlider /\ [][NextSlider]_vars

\* C22: for every slider value v the server applies the radius v/2, v = 0
\* included (in halves: the radius is v).
C22_RadiusIsHalfTheSlider ==
    slider.state = "applied" => slider.radius = slider.value

RECURSIVE SumSeq(_)
SumSeq(s) == IF s = << >> THEN 0 ELSE Head(s) + SumSeq(Tail(s))

\* C23: the backoff delays of one request total at most 6 seconds (2 s and
\* 4 s); every delay lies between two attempts, and none follows the third.
C23_BackoffAtMostSixSeconds ==
    /\ SumSeq(delays) <= 6000
    /\ Len(delays) <= maxRetries - 1
    /\ \A i \in 1..Len(delays) : delays[i] = (2 ^ i) * 1000
    /\ IF pc \in {"backoff", "callService"}
       THEN Len(delays) = calls /\ calls < maxRetries /\ ~success
       ELSE Len(delays) <= Max(calls - 1, 0)

C23_Witness ==
    /\ pc = "done"
    /\ calls = 3
    /\ delays = <<2000, 4000>>
    /\ IsRateLimited(Last(outcomes))

\* C24: when the handler stands at the statement after the retry loop, the
\* last service call resolved with a non-empty payload and result holds it.
C24_LoopLeftWithPayload ==
    pc = "resizeMatte" =>
        /\ calls > 0
        /\ Len(outcomes) = calls
        /\ GotPayload(Last(outcomes))
        /\ result = Last(outcomes).result
        /\ ~PayloadMissing(result)
        /\ success

C24_Witness ==
    /\ pc = "resizeMatte"
    /\ Len(outcomes) = 2
    /\ IsRateLimited(outcomes[1])
    /\ result.base64img = "junk"

ConfigurationError ==
    ErrorResponse("Server configuration error: Remove.bg API key not found", 500)

\* What the handler holds when neither the body, the image library nor the
\* matte service has been touched.
NothingInvoked ==
    /\ ~bodyRead
    /\ file = NoFile
    /\ metadata = NoMetadata
    /\ resizedImage = NoBuffer
    /\ noBackgroundBuffer = NoBuffer
    /\ blurredBuffer = NoBuffer
    /\ combined = NoBuffer
    /\ calls = 0
    /\ outcomes = << >>

\* C25: without a configured API key every request is answered with the 500
\* configuration error, the body is never read and neither the image
\* library nor the matte service is invoked.
C25_NoKeyFailsBeforeBody ==
    /\ [](~apiKey =>
            /\ NothingInvoked
            /\ pc \in {"receive", "done"}
            /\ (pc = "done" => response = ConfigurationError))
    /\ (~apiKey ~> (pc = "done" /\ response = ConfigurationError))

C25_Witness ==
    /\ ~apiKey
    /\ pc = "done"
    /\ response.status = 500
    /\ stages = <<"Failed">>

(***************************************************************************)
(* Claims C26 to C29: the client components.                               *)
(***************************************************************************)

\* A started conversion and a sent request settle in the end; the user is
\* not obliged to drop anything.
FairSpecUpload ==
    SpecUpload /\ WF_vars(ConversionSettles) /\ WF_vars(FetchSettles)

\* C26: every attempt that sets isProcessing to true sets it back to false,
\* whether the conversion and the request succeed, fail, or the conversion
\* yields no blob.
C26_ProcessingEnds == isProcessing ~> ~isProcessing

(***************************************************************************)
(* Home: variant "page" is src/src/app/page.tsx (lines 7-74), variant      *)
(* "part_001" is the Home of src/unnamed/part_001 (lines 92-129).  The     *)
(* file input and the drop zone stay usable while a request is under way;  *)
(* the Process button is disabled while loading.                           *)
(***************************************************************************)

HomeFiles ==
    { [name |-> "a.jpg",     type |-> "image/jpeg", id |-> 0],
      [name |-> "b.png",     type |-> "image/png",  id |-> 0],
      [name |-> "c.jpg",     type |-> "image/jpeg", id |-> 0],
      [name |-> "notes.txt", type |-> "text/plain", id |-> 0] }

\* page.tsx:17 file && file.type.startsWith('image/'); part_001:101 if (file)
SelectionAccepted(v, f) ==
    IF v = "page" THEN StartsWithImage(f.type) ELSE TRUE

\* What the fetch of Home can bring: a response that is ok or not, whose
\* body parses as JSON or not, or a rejection.
HomeFetchOutcomes ==
    { [ok |-> TRUE,  rejected |-> FALSE, json |-> TRUE,  error |-> ""],
      [ok |-> FALSE, rejected |-> FALSE, json |-> TRUE,  error |-> "Invalid image dimensions"],
      [ok |-> FALSE, rejected |-> FALSE, json |-> FALSE, error |-> ""],
      [ok |-> FALSE, rejected |-> TRUE,  json |-> FALSE, error |-> "Failed to fetch"] }

\* The body reaches setProcessedImages: page.tsx:61-67 only past the
\* response.ok test, part_001:122-123 whenever response.json() resolves.
BodyDisplayed(v, r) ==
    IF v = "page" THEN r.ok /\ r.json ELSE ~r.rejected /\ r.json

\* The message of the error caught at page.tsx:68-70.
HomeErrorMessage(r) ==
    IF r.error # "" THEN r.error ELSE "Failed to process image"

InitHome ==
    /\ apiKey = TRUE
    /\ PostInit
    /\ planner = PlannerIdle
    /\ variant \in {"page", "part_001"}
    /\ UploaderInit
    /\ ClientInit

homeFrame == <<postVars, planner, variant, upc, isProcessing, upload, conversions,
               requests, conversionFailed, processed, drops, slider, selectedFile,
               cleared>>

\* handleImageSelect: page.tsx:16-23, part_001:99-107
HandleImageSelect ==
    /\ \E f \in HomeFiles :
          IF SelectionAccepted(variant, f)
          THEN /\ selectedImage' = f
               /\ processedImages' = NoBody
          ELSE UNCHANGED <<selectedImage, processedImages>>
    /\ UNCHANGED <<homeFrame, loading, error, job>>

\* processImage up to the fetch: page.tsx:46-59, part_001:109-121; the
\* button that calls it is disabled when !selectedImage || loading.
ProcessImage ==
    /\ selectedImage # NoSelection
    /\ ~loading
    /\ loading' = TRUE
    /\ error' = IF variant = "page" THEN "" ELSE error
    /\ job' = [stage |-> "fetching", file |-> selectedImage]
    /\ UNCHANGED <<homeFrame, selectedImage, processedImages>>

\* processImage from the settled fetch on: page.tsx:61-73, part_001:122-128
HomeFetchSettles ==
    /\ job.stage = "fetching"
    /\ \E r \in HomeFetchOutcomes :
          IF BodyDisplayed(variant, r)
          THEN /\ processedImages' = [kind |-> IF r.ok THEN "result" ELSE "error",
                                      of |-> job.file.name]
               /\ UNCHANGED error
          ELSE /\ error' = IF variant = "page" THEN HomeErrorMessage(r) ELSE error
               /\ UNCHANGED processedImages
    /\ loading' = FALSE
    /\ job' = NoJob
    /\ UNCHANGED <<homeFrame, selectedImage>>

NextHome ==
    \/ HandleImageSelect
    \/ ProcessImage
    \/ HomeFetchSettles

SpecHome == InitHome /\ [][NextHome]_vars

\* C27: what a client component hands to the display is the body of a
\* response that was ok, never the body of an error response.
C27_OnlyOkBodiesDisplayed ==
    processedImages.kind \in {"none", "result"}

\* C28: in the Home of page.tsx a displayed result is the result of
\* processing the image that is selected now.
C28_ResultOfSelectedImage ==
    (variant = "page" /\ processedImages.kind = "result")
        => processedImages.of = selectedImage.name

(***************************************************************************)
(* The ImageUploader with a Process button: src/unnamed/part_004.  The     *)
(* drop zone is rendered and enabled at all times; the Process button is   *)
(* rendered while a file is selected and nothing is being processed.       *)
(***************************************************************************)

\* Files chosen one after the other.
MaxSelections == 3

ButtonFiles ==
    { [name |-> "a.jpg",  type |-> "image/jpeg"],
      [name |-> "b.heic", type |-> "image/heic"],
      [name |-> "c.heif", type |-> "image/heif"] }

\* errorData?.error || `Server error: ${response.status}`, or the message of
\* the rejection.
ButtonErrorMessage(r) ==
    IF r.error # "" THEN r.error ELSE "Server error: 500"

InitButton ==
    /\ apiKey = TRUE
    /\ PostInit
    /\ planner = PlannerIdle
    /\ variant = "button"
    /\ UploaderInit
    /\ ClientInit

buttonFrame == <<postVars, planner, variant, upc, upload, conversions, requests,
                 conversionFailed, slider, selectedImage, processedImages, loading>>

\* onDrop, part_004:95-99
OnDropSelect ==
    /\ drops < MaxSelections
    /\ \E f \in ButtonFiles :
          selectedFile' = [name |-> f.name, type |-> f.type, id |-> drops + 1]
    /\ drops' = drops + 1
    /\ error' = ""
    /\ UNCHANGED <<buttonFrame, isProcessing, processed, job, cleared>>

\* The Process button (part_004:178-181) and processImage up to its first
\* await (57-77).
ClickProcess ==
    /\ selectedFile # NoSelection
    /\ ~isProcessing
    /\ isProcessing' = TRUE
    /\ error' = ""
    /\ job' = [stage |-> IF IsHeicName("heic2any", selectedFile.name)
                         THEN "converting" ELSE "fetching",
               file |-> selectedFile]
    /\ UNCHANGED <<buttonFrame, selectedFile, processed, drops, cleared>>

\* convertHeicToJpeg settles: part_004:22-54, then 64-77 or 87-92.
ButtonConversionSettles ==
    /\ job.stage = "converting"
    /\ \E o \in ConversionOutcomes("heic2any") :
          IF o = "converted"
          THEN /\ job' = [stage |-> "fetching",
                          file |-> [job.file EXCEPT
                                      !.name = ConvertedName("heic2any", job.file.name),
                                      !.type = "image/jpeg"]]
               /\ UNCHANGED <<isProcessing, error>>
          ELSE /\ job' = NoJob
               /\ error' = ConversionErrorMessage("heic2any")
               /\ isProcessing' = FALSE
    /\ UNCHANGED <<buttonFrame, selectedFile, processed, drops, cleared>>

\* The fetch settles: part_004:79-92.
ButtonFetchSettles ==
    /\ job.stage = "fetching"
    /\ \E r \in HomeFetchOutcomes :
          IF r.ok /\ r.json
          THEN /\ processed' = processed + 1
               /\ selectedFile' = NoSelection
               /\ cleared' = job.file.id
               /\ UNCHANGED error
          ELSE /\ error' = ButtonErrorMessage(r)
               /\ UNCHANGED <<processed, selectedFile, cleared>>
    /\ isProcessing' = FALSE
    /\ job' = NoJob
    /\ UNCHANGED <<buttonFrame, drops>>

NextButton ==
    \/ OnDropSelect
    \/ ClickProcess
    \/ ButtonConversionSettles
    \/ ButtonFetchSettles

SpecButton == InitButton /\ [][NextButton]_vars

\* C29: selectedFile is cleared only by the success of the file chosen last:
\* a file dropped while an earlier one is processed stays selected when the
\* earlier request completes, and a failure clears nothing.
C29_LaterSelectionKept ==
    (drops > 0 /\ selectedFile = NoSelection) => cleared = drops

====
